---- MODULE Spec2Model ----
(***************************************************************************)
(* Model of the asm-ics scrapers: asm_to_ics.py ("asm"),                   *)
(* asm_venue_to_ics.py ("venue"), ticketmaster_oncenter_to_ics.py          *)
(* ("oncenter") and tm_venue_to_ics.py ("tmvenue").                        *)
(*                                                                         *)
(* Time is counted in minutes of wall clock since 2025-01-01 00:00; a      *)
(* timestamp is a wall-clock reading together with the UTC offset of its   *)
(* timezone.  All dates of the model lie in the standard-time part of the  *)
(* year, where America/New_York is UTC-05:00.                              *)
(*                                                                         *)
(* A string is a sequence of atoms; an atom is one of the characters the   *)
(* serializer treats specially, the letter n, a blank, or a run of         *)
(* ordinary text.  A page is the record of what the regular expressions    *)
(* and the HTML parser of the scripts find in it.                          *)
(***************************************************************************)
EXTENDS Integers, Sequences, FiniteSets, TLC

VARIABLES
    variant,   \* which script runs
    pc,        \* position of the run
    now,       \* now_ny(), fixed for the duration of a run
    nin,       \* the value handed to the normalizer
    nout,      \* what the normalizer did with it
    txt,       \* the string handed to escape_ics
    esc,       \* what escape_ics returned
    doc,       \* the page handed to the extractor
    found,     \* what the extractor returned
    listing,   \* the listing page, once fetched
    amp,       \* asm_to_ics: the AMP listing page ('' until and unless fetched)
    todo,      \* the detail URLs still to visit, in visiting order
    visited,   \* the detail URLs fetched so far, in order, each with what
               \* the fetch gave: the page, or a failure
    events,    \* the events (items) collected so far
    written    \* the event blocks of the calendar file, once written

normVars == <<nin, nout>>
escVars == <<txt, esc>>
extVars == <<doc, found>>
runVars == <<listing, amp, todo, visited, events, written>>
vars == <<variant, pc, now, normVars, escVars, extVars, runVars>>

Variants == {"asm", "venue", "oncenter", "tmvenue"}
AsmVariants == {"asm", "venue"}
TmVariants == {"oncenter", "tmvenue"}

\* Python's None where a string is expected: a string of one reserved atom
None == <<"<None>">>

\* ------------------------------------------------------------------ time

\* tz.gettz("America/New_York"), standard time, in minutes east of UTC
SITE_TZ == -300

DEFAULT_EVENT_DURATION_HOURS == 2

DaysInMonth(m) ==
    CASE m \in {4, 6, 9, 11} -> 30
      [] m = 2 -> 28
      [] OTHER -> 31

RECURSIVE DaysBefore(_)
DaysBefore(m) == IF m <= 1 THEN 0 ELSE DaysBefore(m - 1) + DaysInMonth(m - 1)

\* what the datetime constructor and fromisoformat accept
ValidFields(y, m, d, h, mi) ==
    /\ y >= 1
    /\ m \in 1..12
    /\ d >= 1 /\ d <= DaysInMonth(m)
    /\ h \in 0..23
    /\ mi \in 0..59

\* wall-clock minutes since 2025-01-01 00:00
Wall(y, m, d, h, mi) ==
    ((((y - 2025) * 365 + DaysBefore(m) + (d - 1)) * 24) + h) * 60 + mi

\* a timezone-aware datetime: wall-clock reading, offset, zone label
Stamp(w, off, zone) == [wall |-> w, off |-> off, tz |-> zone]

timedelta(days, hours) == days * 1440 + hours * 60

Plus(ts, delta) == [ts EXCEPT !.wall = @ + delta]

\* the instant a timestamp denotes, in minutes of UTC
Instant(ts) == ts.wall - ts.off

utcstamp_wall(ts) == ts.wall

\* d.astimezone(timezone.utc).strftime(...): the UTC reading of the instant
utcstamp(ts) == Instant(ts)

\* dt.astimezone(SITE_TZ)
AsSiteTz(ts) == Stamp(Instant(ts) + SITE_TZ, SITE_TZ, "NY")

\* comparison of aware datetimes compares instants
Geq(a, b) == Instant(a) >= Instant(b)

DateOf(w) == w \div 1440
TimeOfDay(w) == w % 1440

\* now_ny(), t minutes of New York wall clock into 2025
now_ny(t) == Stamp(t, SITE_TZ, "NY")

\* now_ny().year
YearOf(w) == 2025 + (w \div (365 * 1440))

\* ------------------------------------------------------- raw date values

(* A value found under a startDate key or in a date attribute:             *)
(*   none    None or the empty string                                      *)
(*   nonstr  a truthy value that is not a string (a number, an object)     *)
(*   junk    a non-empty string that is no ISO date                        *)
(*   date    a string of the shape YYYY-MM-DD                              *)
(*   dt      a string of the shape YYYY-MM-DDTHH:MM:SS with no offset      *)
(*           (z = "naive"), a trailing Z (z = "Z") or -05:00 (z = "off")   *)
Raw(k, y, m, d, h, mi, z) ==
    [k |-> k, y |-> y, m |-> m, d |-> d, h |-> h, mi |-> mi, z |-> z]

RawNone == Raw("none", 0, 0, 0, 0, 0, "naive")
RawNonStr == Raw("nonstr", 0, 0, 0, 0, 0, "naive")
RawJunk == Raw("junk", 0, 0, 0, 0, 0, "naive")
RawDate(y, m, d) == Raw("date", y, m, d, 0, 0, "naive")
RawDT(y, m, d, h, mi, z) == Raw("dt", y, m, d, h, mi, z)

\* results of the normalizer
NoDate == [r |-> "none", ts |-> Stamp(0, 0, "-")]
Raised == [r |-> "raise", ts |-> Stamp(0, 0, "-")]
Resolved(ts) == [r |-> "ts", ts |-> ts]

\* datetime.fromisoformat(s) for s of kind date or dt; "error" is ValueError
fromisoformat(v) ==
    IF v.k \notin {"date", "dt"} \/ ~ValidFields(v.y, v.m, v.d, v.h, v.mi)
    THEN [r |-> "error", ts |-> Stamp(0, 0, "-")]
    ELSE LET w == Wall(v.y, v.m, v.d, v.h, v.mi)
         IN  CASE v.z = "Z" -> Resolved(Stamp(w, 0, "UTC"))
               [] v.z = "off" -> Resolved(Stamp(w, SITE_TZ, "FIXED"))
               [] OTHER -> Resolved(Stamp(w, 0, "naive"))

StampIfNaive_utc(ts) == IF ts.tz = "naive" THEN Stamp(ts.wall, 0, "UTC") ELSE ts

\* dt.replace(tzinfo=SITE_TZ) when dt.tzinfo is None
StampIfNaive(ts) == IF ts.tz = "naive" THEN Stamp(ts.wall, SITE_TZ, "NY") ELSE ts

\* asm_to_ics.parse_iso_like and asm_venue_to_ics.parse_iso_like
parse_iso_like(v) ==
    IF v.k = "none" THEN NoDate                       \* if not iso: return None
    ELSE IF v.k = "nonstr" THEN Raised                \* iso.strip(): AttributeError
    ELSE LET s == IF v.k = "date"                     \* s += "T19:00:00"
                  THEN RawDT(v.y, v.m, v.d, 19, 0, "naive") ELSE v
             p == fromisoformat(s)
         IN  IF p.r = "error" THEN NoDate             \* except Exception: return None
             ELSE Resolved(StampIfNaive(p.ts))

\* ticketmaster_oncenter_to_ics.parse_iso_guess_local and
\* tm_venue_to_ics.parse_iso_guess_local
parse_iso_guess_local(v) ==
    IF v.k = "none" THEN NoDate                       \* if not s: return None
    ELSE IF v.k = "nonstr" THEN Raised                \* s.strip(): AttributeError
    ELSE LET p == fromisoformat(v)
         IN  IF p.r # "error"
             THEN IF v.z = "Z" THEN Resolved(AsSiteTz(p.ts))
                  ELSE Resolved(StampIfNaive(p.ts))
             \* except Exception: a date-shaped string goes to datetime(y, mo, d, 19, 0),
             \* whose ValueError is raised inside the handler and propagates
             ELSE IF v.k = "date"
                  THEN IF ValidFields(v.y, v.m, v.d, 19, 0)
                       THEN Resolved(Stamp(Wall(v.y, v.m, v.d, 19, 0), SITE_TZ, "NY"))
                       ELSE Raised
                  ELSE NoDate

\* the normalizer of each script
Normalizer(var, v) ==
    IF var \in AsmVariants THEN parse_iso_like(v) ELSE parse_iso_guess_local(v)

\* --------------------------------------------------------------- strings

RECURSIVE Replace(_, _, _)
\* s.replace(a, rep): every atom a of s becomes the atoms rep
Replace(s, a, rep) ==
    IF s = <<>> THEN <<>>
    ELSE (IF Head(s) = a THEN rep ELSE <<Head(s)>>) \o Replace(Tail(s), a, rep)

\* (s or "")
OrEmpty(s) == IF s = None THEN <<>> ELSE s

escape_ics_backslash_last(s) ==
    Replace(Replace(Replace(Replace(OrEmpty(s),
        ";", <<"\\", ";">>),
        ",", <<"\\", ",">>),
        "\n", <<"\\", "n">>),
        "\\", <<"\\", "\\">>)

\* escape_ics of asm_to_ics, asm_venue_to_ics and ticketmaster_oncenter_to_ics:
\* four replace passes, the backslash first
escape_ics(s) ==
    Replace(Replace(Replace(Replace(OrEmpty(s),
        "\\", <<"\\", "\\">>),
        ";", <<"\\", ";">>),
        ",", <<"\\", ",">>),
        "\n", <<"\\", "n">>)

RECURSIVE LStrip(_)
LStrip(s) == IF s # <<>> /\ Head(s) = " " THEN LStrip(Tail(s)) ELSE s

RECURSIVE RStrip(_)
RStrip(s) ==
    IF s # <<>> /\ s[Len(s)] = " " THEN RStrip(SubSeq(s, 1, Len(s) - 1)) ELSE s

\* s.strip()
Strip(s) == LStrip(RStrip(s))

RECURSIVE BeforeBar(_)
\* txt.split("|")[0]
BeforeBar(s) ==
    IF s = <<>> \/ Head(s) = "|" THEN <<>> ELSE <<Head(s)>> \o BeforeBar(Tail(s))

\* a truthy Python string: not None and not empty
Truthy(s) == s # None /\ s # <<>>

\* ----------------------------------------------------------------- pages

(* A JSON-LD node, as walk() yields it from the blocks parse_json_ld       *)
(* returns: its @type ("" when absent) as a sequence of characters, its    *)
(* name, the first truthy value among its start keys, its url and its      *)
(* description.                                                            *)
Node(type, name, start, url, desc) ==
    [type |-> type, name |-> name, start |-> start, url |-> url, desc |-> desc]

\* a match of DATE_TEXT_RE in the visible text; year 0 when the year is absent
TextMatch(mon, day, year, h, mm, ap) ==
    [mon |-> mon, day |-> day, year |-> year, h |-> h, mm |-> mm, ap |-> ap]

(* A page: the detail links collect_links finds in it, its JSON-LD nodes,  *)
(* the values captured by ITEMPROP_STARTDATE_RE, TIME_TAG_RE,              *)
(* META_START_RE and GENERIC_STARTDATE_RE, the matches of DATE_TEXT_RE,    *)
(* and the text of its h1, og:title and title elements.                    *)
Page(links, nodes, itemprop, timetag, meta, generic, text, h1, og, ttl) ==
    [links |-> links, nodes |-> nodes, itemprop |-> itemprop, timetag |-> timetag,
     meta |-> meta, generic |-> generic, text |-> text,
     h1 |-> h1, og |-> og, ttl |-> ttl]

EmptyPage == Page({}, <<>>, <<>>, <<>>, <<>>, <<>>, <<>>, None, None, None)

EventWord == <<"E", "v", "e", "n", "t">>

\* "Event" in t
ContainsEvent(t) ==
    \E i \in 1..Len(t) : i + 4 <= Len(t) /\ SubSeq(t, i, i + 4) = EventWord

LowerChar(c) ==
    CASE c = "E" -> "e"
      [] c = "M" -> "m"
      [] c = "P" -> "p"
      [] c = "S" -> "s"
      [] OTHER -> c

\* t.lower()
Lower(t) == [i \in 1..Len(t) |-> LowerChar(t[i])]

\* a date an extractor found, with the stage that found it
Dated(ts, src) == [ts |-> ts, src |-> src]

Tagged(stamps, src) == [i \in 1..Len(stamps) |-> Dated(stamps[i], src)]

\* what an extraction returns: it raised, or dates and a title
Found(st, dates, title) == [st |-> st, dates |-> dates, title |-> title]

RaisedFound == Found("raise", <<>>, None)

RECURSIVE ParseEach(_)
\* for m in RE.finditer(html): d = parse_iso_like(m.group(1)); if d: dates.append(d)
ParseEach(raws) ==
    IF raws = <<>> THEN [st |-> "ok", dates |-> <<>>]
    ELSE LET d == parse_iso_like(Head(raws))
             rest == ParseEach(Tail(raws))
         IN  IF d.r = "raise" \/ rest.st = "raise" THEN [st |-> "raise", dates |-> <<>>]
             ELSE [st |-> "ok",
                   dates |-> (IF d.r = "ts" THEN <<d.ts>> ELSE <<>>) \o rest.dates]

RECURSIVE ScanJsonLd(_, _)
\* the JSON-LD loop of find_event_datetimes and find_dates_and_title_from_html
ScanJsonLd(nodes, acc) ==
    IF nodes = <<>> \/ acc.st = "raise" THEN acc
    ELSE LET n == Head(nodes)
             title == IF ~Truthy(acc.title) /\ n.name # None THEN n.name ELSE acc.title
             d == parse_iso_like(n.start)
         IN  IF ~ContainsEvent(n.type) THEN ScanJsonLd(Tail(nodes), acc)
             ELSE IF d.r = "raise" THEN RaisedFound
             ELSE ScanJsonLd(Tail(nodes),
                     Found("ok",
                           IF d.r = "ts" THEN Append(acc.dates, d.ts) ELSE acc.dates,
                           title))

\* MONTH_MAP.get(mon_name); 0 when the name is not a key.  asm_venue_to_ics has
\* no key 'Mar'.
MONTH_MAP(var, name) ==
    CASE name \in {"January", "Jan.", "Jan"} -> 1
      [] name \in {"February", "Feb.", "Feb"} -> 2
      [] name \in {"March", "Mar."} -> 3
      [] name = "Mar" -> IF var = "venue" THEN 0 ELSE 3
      [] name \in {"April", "Apr.", "Apr"} -> 4
      [] name = "May" -> 5
      [] name \in {"June", "Jun.", "Jun"} -> 6
      [] name \in {"July", "Jul.", "Jul"} -> 7
      [] name \in {"August", "Aug.", "Aug"} -> 8
      [] name \in {"September", "Sep.", "Sept.", "Sep", "Sept"} -> 9
      [] name \in {"October", "Oct.", "Oct"} -> 10
      [] name \in {"November", "Nov.", "Nov"} -> 11
      [] name \in {"December", "Dec.", "Dec"} -> 12
      [] OTHER -> 0

\* m.group(6).lower()
LowerAmPm(ap) == IF ap \in {"AM", "Am", "aM", "am"} THEN "am" ELSE "pm"

To24_plain(h, ap) == IF ap = "pm" THEN h + 12 ELSE h

\* if ampm == "pm" and h != 12: h += 12
\* if ampm == "am" and h == 12: h = 0
To24(h, ap) ==
    LET h1 == IF ap = "pm" /\ h # 12 THEN h + 12 ELSE h
    IN  IF ap = "am" /\ h1 = 12 THEN 0 ELSE h1

RECURSIVE TextDates(_, _, _)
\* the visible-text loop; datetime(y, mon, day, h, mm, tzinfo=SITE_TZ) raises
\* ValueError on fields that denote no timestamp
TextDates(var, matches, t) ==
    IF matches = <<>> THEN [st |-> "ok", dates |-> <<>>]
    ELSE LET m == Head(matches)
             mon == MONTH_MAP(var, m.mon)
             h == To24(m.h, LowerAmPm(m.ap))
             y == IF m.year # 0 THEN m.year ELSE YearOf(t)
             rest == TextDates(var, Tail(matches), t)
         IN  IF mon = 0 THEN rest
             ELSE IF ~ValidFields(y, mon, m.day, h, m.mm) \/ rest.st = "raise"
                  THEN [st |-> "raise", dates |-> <<>>]
             ELSE [st |-> "ok",
                   dates |-> <<Stamp(Wall(y, mon, m.day, h, m.mm), SITE_TZ, "NY")>>
                             \o rest.dates]

\* ------------------------------------------------------------ extractors

find_event_datetimes_merged(page, t) ==
    LET j == ScanJsonLd(page.nodes, Found("ok", <<>>, None))
        a == ParseEach(page.itemprop \o page.timetag \o page.meta \o page.generic)
    IN  IF j.st = "raise" THEN RaisedFound
        ELSE Found("ok", Tagged(j.dates, "jsonld") \o Tagged(a.dates, "itemprop"),
                   j.title)

\* asm_to_ics.find_event_datetimes: six stages, the first that finds a date
\* returns; the title is whatever the JSON-LD loop left in it
find_event_datetimes(page, t) ==
    LET j == ScanJsonLd(page.nodes, Found("ok", <<>>, None))
        a == ParseEach(page.itemprop)
        b == ParseEach(page.timetag)
        c == ParseEach(page.meta)
        g == ParseEach(page.generic)
        x == TextDates("asm", page.text, t)
    IN  IF j.st = "raise" THEN RaisedFound
        ELSE IF j.dates # <<>> THEN Found("ok", Tagged(j.dates, "jsonld"), j.title)
        ELSE IF a.dates # <<>> THEN Found("ok", Tagged(a.dates, "itemprop"), j.title)
        ELSE IF b.dates # <<>> THEN Found("ok", Tagged(b.dates, "time"), j.title)
        ELSE IF c.dates # <<>> THEN Found("ok", Tagged(c.dates, "meta"), j.title)
        ELSE IF g.dates # <<>> THEN Found("ok", Tagged(g.dates, "generic"), j.title)
        ELSE IF x.st = "raise" THEN RaisedFound
        ELSE Found("ok", Tagged(x.dates, "text"), j.title)

find_dates_and_title_from_html_all(page, t) ==
    LET j == ScanJsonLd(page.nodes, Found("ok", <<>>, None))
        merged == Tagged(ParseEach(page.itemprop).dates, "itemprop")
                  \o Tagged(ParseEach(page.timetag).dates, "time")
                  \o Tagged(ParseEach(page.meta).dates, "meta")
                  \o Tagged(ParseEach(page.generic).dates, "generic")
        x == TextDates("venue", page.text, t)
    IN  IF j.st = "raise" THEN RaisedFound
        ELSE IF j.dates # <<>> THEN Found("ok", Tagged(j.dates, "jsonld"), j.title)
        ELSE IF x.st = "raise" THEN RaisedFound
        ELSE Found("ok", merged \o Tagged(x.dates, "text"), j.title)

\* asm_venue_to_ics.find_dates_and_title_from_html: JSON-LD, then the four
\* attribute and generic scans together, then visible text
find_dates_and_title_from_html(page, t) ==
    LET j == ScanJsonLd(page.nodes, Found("ok", <<>>, None))
        a == ParseEach(page.itemprop)
        b == ParseEach(page.timetag)
        c == ParseEach(page.meta)
        g == ParseEach(page.generic)
        merged == Tagged(a.dates, "itemprop") \o Tagged(b.dates, "time")
                  \o Tagged(c.dates, "meta") \o Tagged(g.dates, "generic")
        x == TextDates("venue", page.text, t)
    IN  IF j.st = "raise" THEN RaisedFound
        ELSE IF j.dates # <<>> THEN Found("ok", Tagged(j.dates, "jsonld"), j.title)
        ELSE IF merged # <<>> THEN Found("ok", merged, j.title)
        ELSE IF x.st = "raise" THEN RaisedFound
        ELSE Found("ok", Tagged(x.dates, "text"), j.title)

\* the extractor of each ASM script
AsmExtract(var, page, t) ==
    IF var = "asm" THEN find_event_datetimes(page, t)
    ELSE find_dates_and_title_from_html(page, t)

\* asm_to_ics.extract_title: the h1 if there is one (its text may be empty),
\* else the title element cut at the first "|"
extract_title(page) ==
    IF page.h1 # None THEN Strip(page.h1)
    ELSE IF page.ttl # None THEN Strip(BeforeBar(Strip(page.ttl)))
    ELSE None

\* asm_venue_to_ics.extract_title_from_html
extract_title_from_html(page) ==
    IF page.h1 # None /\ Strip(page.h1) # <<>> THEN Strip(page.h1)
    ELSE IF Truthy(page.og) THEN Strip(page.og)
    ELSE IF page.ttl # None THEN Strip(BeforeBar(Strip(page.ttl)))
    ELSE None

\* v.startswith("http")
StartsWithHttp(v) == v # None /\ v # <<>> /\ Head(v) \in {"https://", "http://"}

\* an item of the Ticketmaster scripts: (title, start_dt, url, desc); ph marks
\* the placeholder
Item(title, start, url, desc, ph) ==
    [title |-> title, start |-> start, url |-> url, desc |-> desc, ph |-> ph]

RECURSIVE TmScan(_)
\* the node loop of collect_events_from_jsonld
TmScan(nodes) ==
    IF nodes = <<>> THEN [st |-> "ok", items |-> <<>>]
    ELSE LET n == Head(nodes)
             title == IF n.name # None /\ Strip(n.name) # <<>> THEN Strip(n.name) ELSE None
             \* parse_iso_guess_local(start_raw) if isinstance(start_raw, str) else None
             d == IF n.start.k = "nonstr" THEN NoDate ELSE parse_iso_guess_local(n.start)
             url == IF StartsWithHttp(n.url) THEN n.url ELSE <<>>
             desc == OrEmpty(n.desc)
             rest == TmScan(Tail(nodes))
         IN  IF n.type = <<>> \/ ~ContainsEvent(n.type) THEN rest
             ELSE IF d.r = "raise" \/ rest.st = "raise" THEN [st |-> "raise", items |-> <<>>]
             ELSE [st |-> "ok",
                   items |-> (IF title # None /\ d.r = "ts"
                              THEN <<Item(title, d.ts, url, desc, FALSE)>> ELSE <<>>)
                             \o rest.items]

\* key = (t, s.isoformat(), u)
DedupKey(it) == <<it.title, it.start.wall, it.start.off, it.url>>

RECURSIVE Uniq(_, _)
\* the seen/uniq loop of collect_events_from_jsonld
Uniq(items, seen) ==
    IF items = <<>> THEN <<>>
    ELSE IF DedupKey(Head(items)) \in seen THEN Uniq(Tail(items), seen)
    ELSE <<Head(items)>> \o Uniq(Tail(items), seen \cup {DedupKey(Head(items))})

\* collect_events_from_jsonld of the two Ticketmaster scripts
collect_events_from_jsonld(page) ==
    LET r == TmScan(page.nodes)
    IN  IF r.st = "raise" THEN r ELSE [st |-> "ok", items |-> Uniq(r.items, {})]

\* ------------------------------------------------------- sample contents

Str(a) == <<a>>

TypeEvent == EventWord
TypeMusicEvent == <<"M", "u", "s", "i", "c">> \o EventWord
TypeLowerEvent == <<"e", "v", "e", "n", "t">>
TypePlace == <<"P", "l", "a", "c", "e">>

TitleShow == Str("Sample Show")
TitleComma == <<"A", ",", " ", "B", ";", "C", "\\", "n">>
UrlShow == <<"https://", "example.com/show">>
UrlComma == <<"https://", "example.com/a", ",", "b">>

\* 2025-11-19T03:00:00, 2025-11-20T03:00:00-05:00, 2025-11-20T19:30:00-05:00
RawOld == RawDT(2025, 11, 19, 3, 0, "naive")
RawRecent == RawDT(2025, 11, 20, 3, 0, "off")
RawShow == RawDT(2025, 11, 20, 19, 30, "off")
RawDay == RawDate(2025, 11, 22)
RawBadDay == RawDate(2025, 2, 30)

\* ------------------------------------------------- normalizer, on its own

RawYears == {2025}
RawMonths == {2, 11}
RawDays == {20, 30}
RawHours == {0, 19, 24}
RawMinutes == {0, 30}
RawZones == {"naive", "Z", "off"}

RawValues ==
    {RawNone, RawNonStr, RawJunk}
    \cup {RawDate(y, m, d) : y \in RawYears, m \in RawMonths, d \in RawDays}
    \cup {RawDT(y, m, d, h, mi, z) : y \in RawYears, m \in RawMonths, d \in RawDays,
                                     h \in RawHours, mi \in RawMinutes, z \in RawZones}

\* what the extractors of a script hand to its normalizer: the Ticketmaster
\* scripts hand it strings only (isinstance(start_raw, str))
Handed(var) == IF var \in TmVariants THEN RawValues \ {RawNonStr} ELSE RawValues

IdleNorm == nin = RawNone /\ nout = NoDate
IdleEsc == txt = <<>> /\ esc = <<>>
IdleExt == doc = EmptyPage /\ found = Found("ok", <<>>, None)
IdleRun ==
    /\ listing = EmptyPage /\ amp = EmptyPage
    /\ todo = <<>> /\ visited = <<>> /\ events = <<>> /\ written = <<>>

NormInit ==
    /\ variant \in Variants
    /\ pc = "norm_call"
    /\ now = 0
    /\ nin \in Handed(variant)
    /\ nout = NoDate
    /\ IdleEsc /\ IdleExt /\ IdleRun

Normalize ==
    /\ pc = "norm_call"
    /\ nout' = Normalizer(variant, nin)
    /\ pc' = "norm_done"
    /\ UNCHANGED <<variant, now, nin, escVars, extVars, runVars>>

NormNext == Normalize

SpecNorm == NormInit /\ [][NormNext]_vars

\* ------------------------------------------------- escape_ics, on its own

MaxLen == 3

Alphabet == {",", ";", "\\", "\n", "n", "x"}

RECURSIVE StringsUpTo(_)
StringsUpTo(k) ==
    IF k = 0 THEN {<<>>}
    ELSE LET shorter == StringsUpTo(k - 1)
         IN  shorter \cup {Append(w, a) : w \in shorter, a \in Alphabet}

EscInit ==
    /\ variant \in {"asm", "venue", "oncenter"}
    /\ pc = "esc_call"
    /\ now = 0
    /\ txt \in StringsUpTo(MaxLen)
    /\ esc = <<>>
    /\ IdleNorm /\ IdleExt /\ IdleRun

Escape ==
    /\ pc = "esc_call"
    /\ esc' = escape_ics(txt)
    /\ pc' = "esc_done"
    /\ UNCHANGED <<variant, now, txt, normVars, extVars, runVars>>

EscNext == Escape

SpecEsc == EscInit /\ [][EscNext]_vars

RECURSIVE Unescape(_)
\* reading an escaped value left to right: \\ \; \, and \n
Unescape(s) ==
    IF s = <<>> THEN <<>>
    ELSE IF Head(s) = "\\" /\ Len(s) >= 2
         THEN (IF s[2] = "n" THEN <<"\n">> ELSE <<s[2]>>) \o Unescape(Tail(Tail(s)))
    ELSE <<Head(s)>> \o Unescape(Tail(s))

\* ------------------------------------------------- extractors, on their own

MaxNodes == 2

\* the instant the extractions run at: 2025-11-20 15:00 New York
ExtNow == Wall(2025, 11, 20, 15, 0)

ExtNodes ==
    { Node(TypeEvent, TitleShow, RawShow, UrlShow, None),
      Node(TypeEvent, TitleShow, RawShow, UrlShow, Str("doors at 6")),
      Node(TypeMusicEvent, TitleComma, RawDay, None, None),
      Node(TypeEvent, Str("Named"), RawNone, UrlShow, None),
      Node(TypePlace, Str("Arena"), RawShow, None, None),
      Node(TypeEvent, None, RawNonStr, None, None),
      Node(TypeEvent, Str("Late Show"), RawOld, None, None),
      Node(TypeEvent, TitleShow, RawBadDay, None, None) }

RECURSIVE SeqsUpTo(_, _)
SeqsUpTo(S, k) ==
    IF k = 0 THEN {<<>>}
    ELSE LET shorter == SeqsUpTo(S, k - 1)
         IN  shorter \cup {Append(w, a) : w \in shorter, a \in S}

OneOrNone(x) == {<<>>, <<x>>}

TextSamples ==
    { TextMatch("Nov", 20, 0, 7, 30, "PM"), TextMatch("Feb", 30, 2025, 7, 0, "PM") }

\* pages that exercise the order of the stages
CascadePages ==
    { Page({}, ns, ip, tt, me, ge, tx, None, None, None) :
        ns \in SeqsUpTo(ExtNodes, MaxNodes),
        ip \in OneOrNone(RawDay),
        tt \in OneOrNone(RawShow),
        me \in OneOrNone(RawJunk),
        ge \in OneOrNone(RawOld),
        tx \in {<<>>} \cup {<<m>> : m \in TextSamples} }

TextHours == 0..13
TextAmPm == {"AM", "am", "PM", "pm"}

\* pages with nothing but one visible-text date
TextPages ==
    { Page({}, <<>>, <<>>, <<>>, <<>>, <<>>, <<TextMatch(mon, 20, y, h, mm, ap)>>,
           None, None, None) :
        mon \in {"Nov", "Mar"}, y \in {0, 2025}, h \in TextHours,
        mm \in {0, 30}, ap \in TextAmPm }

\* pages with JSON-LD only, which is all the Ticketmaster scripts read
JsonLdPages ==
    { Page({}, ns, <<>>, <<>>, <<>>, <<>>, <<>>, None, None, None) :
        ns \in SeqsUpTo(ExtNodes, MaxNodes) }

ExtPages(var) ==
    IF var \in AsmVariants THEN CascadePages \cup TextPages ELSE JsonLdPages

ExtInit ==
    /\ variant \in Variants
    /\ pc = "ext_call"
    /\ now = ExtNow
    /\ doc \in ExtPages(variant)
    /\ found = Found("ok", <<>>, None)
    /\ IdleNorm /\ IdleEsc /\ IdleRun

ExtractAsm ==
    /\ pc = "ext_call"
    /\ variant \in AsmVariants
    /\ found' = AsmExtract(variant, doc, now)
    /\ pc' = "ext_done"
    /\ UNCHANGED <<variant, now, doc, normVars, escVars, runVars>>

ExtractTm ==
    /\ pc = "ext_call"
    /\ variant \in TmVariants
    /\ found' = collect_events_from_jsonld(doc)
    /\ pc' = "ext_done"
    /\ UNCHANGED <<variant, now, doc, normVars, escVars, runVars>>

ExtNext == ExtractAsm \/ ExtractTm

SpecExt == ExtInit /\ [][ExtNext]_vars

\* ------------------------------------------------- events and serializer

DefaultTitle == Str("ASM Syracuse Event")

\* TITLE_PREFIX of asm_venue_to_ics ("ASM: ") and ticketmaster_oncenter_to_ics
\* ("Oncenter: "); the --prefix of tm_venue_to_ics defaults to ""
TITLE_PREFIX(var) ==
    CASE var = "venue" -> <<"ASM:", " ">>
      [] var = "oncenter" -> <<"Oncenter:", " ">>
      [] OTHER -> <<>>

\* the page a run starts from: LIST_URL, DEFAULT_URL, VENUE_URL, --url
StartUrl(var) ==
    CASE var = "asm" -> <<"https://", "www.asmsyracuse.com/events">>
      [] var = "venue" -> <<"https://", "www.asmsyracuse.com/location/war-memorial">>
      [] var = "oncenter" -> <<"https://", "www.ticketmaster.com/venue/184">>
      [] OTHER -> <<"https://", "www.ticketmaster.com/venue/other">>

AMP_URL == <<"https://", "www.asmsyracuse.com/events/amp/">>

\* the i-th detail URL in sorted order
DetailUrl(i) == <<"https://", "www.asmsyracuse.com/events/show-" \o ToString(i) \o "/">>

NoEnd == Stamp(0, 0, "none")

\* Event.__init__ of asm_to_ics and asm_venue_to_ics; ph marks the placeholder
Event(var, title, start, end, url, ph) ==
    LET base == Strip(IF Truthy(title) THEN title ELSE DefaultTitle)
    IN  [title |-> IF var = "venue" THEN Strip(TITLE_PREFIX(var) \o base) ELSE base,
         start |-> start,
         end |-> IF end = NoEnd
                 THEN Plus(start, timedelta(0, DEFAULT_EVENT_DURATION_HOURS))
                 ELSE end,
         url |-> url,
         desc |-> <<>>,
         ph |-> ph]

\* one VEVENT block of the file; of is the event or item it was written from
Block(stamp, dtstart, dtend, summary, url, desc, of) ==
    [dtstamp |-> stamp, dtstart |-> dtstart, dtend |-> dtend, summary |-> summary,
     url |-> url, desc |-> desc, of |-> of]

\* Event.to_ics; a field the code leaves out is None
EventToIcs(e, t) ==
    Block(utcstamp(now_ny(t)), utcstamp(e.start), utcstamp(e.end), escape_ics(e.title),
          IF Truthy(e.url) THEN escape_ics(e.url) ELSE None,
          None, e)

\* the loop body of ticketmaster_oncenter_to_ics.to_ics
OncenterToIcs(it, t) ==
    Block(utcstamp(now_ny(t)), utcstamp(it.start),
          utcstamp(Plus(it.start, timedelta(0, DEFAULT_EVENT_DURATION_HOURS))),
          escape_ics(TITLE_PREFIX("oncenter") \o it.title),
          IF Truthy(it.url) THEN escape_ics(it.url) ELSE None,
          IF Truthy(it.desc) THEN escape_ics(it.desc) ELSE None, it)

\* the loop body of tm_venue_to_ics.to_ics, which writes the fields as they are
TmVenueToIcs(it, t) ==
    Block(utcstamp(now_ny(t)), utcstamp(it.start),
          utcstamp(Plus(it.start, timedelta(0, DEFAULT_EVENT_DURATION_HOURS))),
          TITLE_PREFIX("tmvenue") \o it.title,
          IF Truthy(it.url) THEN it.url ELSE None,
          IF Truthy(it.desc) THEN it.desc ELSE None, it)

ToIcs(var, e, t) ==
    CASE var \in AsmVariants -> EventToIcs(e, t)
      [] var = "oncenter" -> OncenterToIcs(e, t)
      [] OTHER -> TmVenueToIcs(e, t)

RECURSIVE InsertByStart(_, _)
InsertByStart(sorted, e) ==
    IF sorted = <<>> THEN <<e>>
    ELSE IF Instant(Head(sorted).start) <= Instant(e.start)
         THEN <<Head(sorted)>> \o InsertByStart(Tail(sorted), e)
    ELSE <<e>> \o sorted

RECURSIVE SortByStart(_)
\* events.sort(key=lambda e: e.start), sorted(events, key=lambda x: x[1]): stable
SortByStart(es) ==
    IF es = <<>> THEN <<>>
    ELSE InsertByStart(SortByStart(SubSeq(es, 1, Len(es) - 1)), es[Len(es)])

\* the calendar file's event blocks
Serialize(var, es, t) ==
    LET sorted == SortByStart(es)
    IN  [i \in 1..Len(sorted) |-> ToIcs(var, sorted[i], t)]

\* now + timedelta(days=1, hours=9)
PlaceholderStart(t) == Plus(now_ny(t), timedelta(1, 9))

PlaceholderTitle(var) ==
    CASE var = "asm" -> Str("ASM Feed Connected - awaiting events")
      [] var = "tmvenue" -> Str("Feed Connected - awaiting events")
      [] OTHER -> Str("Venue Feed Connected - awaiting events")

NoPlaceholder(var, t) == <<>>

\* the event each script adds when it has none
Placeholder(var, t) ==
    LET start == PlaceholderStart(t)
    IN  IF var \in AsmVariants
        THEN <<Event(var, PlaceholderTitle(var), start, Plus(start, timedelta(0, 1)),
                     StartUrl(var), TRUE)>>
        ELSE <<Item(PlaceholderTitle(var), start, StartUrl(var),
                    Str("No upcoming events yet."), TRUE)>>

\* dt >= now_ny() - timedelta(days=1); s >= cutoff
Recent(ts, t) == Geq(ts, Plus(now_ny(t), 0 - timedelta(1, 0)))

RECURSIVE KeepRecent(_, _)
\* [(t, s, u, d) for (t, s, u, d) in items if s >= cutoff]
KeepRecent(items, t) ==
    IF items = <<>> THEN <<>>
    ELSE (IF Recent(Head(items).start, t) THEN <<Head(items)>> ELSE <<>>)
         \o KeepRecent(Tail(items), t)

RECURSIVE EventsOf(_, _, _, _, _)
\* for dt in dates: if dt >= now_ny() - timedelta(days=1): events.append(Event(...))
EventsOf(var, dates, title, url, t) ==
    IF dates = <<>> THEN <<>>
    ELSE (IF Recent(Head(dates).ts, t)
          THEN <<Event(var, title, Head(dates).ts, NoEnd, url, FALSE)>> ELSE <<>>)
         \o EventsOf(var, Tail(dates), title, url, t)

\* title or extract_title(html) or "ASM Syracuse Event"
PageTitle(var, title, page) ==
    LET x == IF var = "asm" THEN extract_title(page) ELSE extract_title_from_html(page)
    IN  IF Truthy(title) THEN title
        ELSE IF Truthy(x) THEN x
        ELSE DefaultTitle

RECURSIVE DirectEvents(_, _)
\* asm_to_ics.main, "if not urls": the events of one listing page's JSON-LD,
\* taken as they are
DirectEvents(nodes, pageUrl) ==
    IF nodes = <<>> THEN [st |-> "ok", events |-> <<>>]
    ELSE LET n == Head(nodes)
             name == IF Truthy(n.name) THEN n.name ELSE DefaultTitle
             start == parse_iso_like(n.start)
             url == IF Truthy(n.url) THEN n.url ELSE pageUrl
             rest == DirectEvents(Tail(nodes), pageUrl)
         IN  IF Lower(n.type) # TypeLowerEvent THEN rest
             ELSE IF start.r = "raise" \/ rest.st = "raise"
                  THEN [st |-> "raise", events |-> <<>>]
             ELSE [st |-> "ok",
                   events |-> (IF start.r = "ts"
                               THEN <<Event("asm", name, start.ts, NoEnd, url, FALSE)>>
                               ELSE <<>>) \o rest.events]

\* ------------------------------------------------------------------ runs

MaxPages == 2

\* the times of day a run happens at: 2025-11-20 00:00, 03:00 and 15:00
NowSet == {Wall(2025, 11, 20, 0, 0), Wall(2025, 11, 20, 3, 0), Wall(2025, 11, 20, 15, 0)}

RunNodes ==
    { Node(TypeEvent, TitleShow, RawOld, UrlShow, None),
      Node(TypeEvent, TitleComma, RawRecent, UrlComma, <<"a", "\n", "b">>),
      Node(TypeMusicEvent, TitleShow, RawDay, None, None),
      Node(TypeEvent, TitleShow, RawShow, UrlShow, None),
      Node(TypeEvent, TitleShow, RawBadDay, None, None) }

JsonPage(links, nodes) ==
    Page(links, nodes, <<>>, <<>>, <<>>, <<>>, <<>>, None, None, None)

\* what a listing page may hold: no links and some JSON-LD, or links
ListingPages ==
    { JsonPage({}, ns) : ns \in SeqsUpTo(RunNodes, MaxNodes) }
    \cup { JsonPage(1..k, <<>>) : k \in 1..MaxPages }
    \cup { Page({}, <<>>, <<>>, <<>>, <<>>, <<>>, <<TextMatch("Nov", 22, 0, 12, 0, "AM")>>,
                None, None, <<"Hockey", " ", "|", " ", "ASM">>) }

AmpPages ==
    { EmptyPage, JsonPage({MaxPages}, <<>>),
      JsonPage({}, <<Node(TypeEvent, None, RawOld, None, None)>>) }

DetailPages ==
    { EmptyPage,
      JsonPage({}, <<Node(TypeEvent, TitleShow, RawOld, UrlShow, None)>>),
      JsonPage({}, <<Node(TypeEvent, TitleComma, RawRecent, None, None)>>),
      JsonPage({}, <<Node(TypeEvent, TitleShow, RawShow, UrlShow, None),
                     Node(TypeEvent, TitleShow, RawShow, UrlShow, Str("doors at 6"))>>),
      JsonPage({}, <<Node(TypeEvent, None, RawNonStr, None, None)>>),
      Page({}, <<>>, <<>>, <<>>, <<>>, <<>>, <<TextMatch("Nov", 22, 2025, 7, 30, "PM")>>,
           Str("Headline"), None, None),
      Page({}, <<>>, <<>>, <<>>, <<>>, <<>>, <<TextMatch("Feb", 30, 0, 7, 0, "PM")>>,
           None, None, None),
      Page({}, <<>>, <<RawDay>>, <<>>, <<>>, <<>>, <<>>,
           None, Str("Og Title"), <<"Show", " ", "|", " ", "ASM">>) }

\* one entry of visited: the number of the URL, "failed" when fetch(u) raised
\* and "read" when it returned, and the page it returned
Visit(u, got, page) == [url |-> u, got |-> got, page |-> page]

RECURSIVE Sorted(_)
\* sorted(urls): the detail URLs are numbered in their sorted order
Sorted(S) ==
    IF S = {} THEN <<>>
    ELSE LET least == CHOOSE x \in S : \A y \in S : x <= y
         IN  <<least>> \o Sorted(S \ {least})

RunInit ==
    /\ variant \in Variants
    /\ pc = "start"
    /\ now \in NowSet
    /\ IdleRun /\ IdleNorm /\ IdleEsc /\ IdleExt

\* fetch() of the listing page raises.  asm_venue_to_ics catches it and writes
\* a feed with the placeholder alone; the other scripts end with the exception.
ListingFetchFails ==
    /\ pc = "start"
    /\ IF variant = "venue"
       THEN /\ events' = Placeholder(variant, now)
            /\ written' = Serialize(variant, events', now)
            /\ pc' = "written"
       ELSE /\ pc' = "crashed"
            /\ UNCHANGED <<events, written>>
    /\ UNCHANGED <<variant, now, listing, amp, todo, visited, normVars, escVars, extVars>>

\* the listing page arrives.  asm_to_ics goes on to the AMP page;
\* asm_venue_to_ics collects the links; the Ticketmaster scripts collect the
\* items of the page and keep the recent ones.
ListingFetched ==
    /\ pc = "start"
    /\ \E p \in ListingPages :
        /\ variant \in TmVariants => p.links = {}
        /\ listing' = p
        /\ CASE variant = "asm" ->
                  /\ pc' = "amp"
                  /\ UNCHANGED <<todo, events>>
             [] variant = "venue" ->
                  /\ todo' = Sorted(p.links)
                  /\ pc' = IF p.links = {} THEN "direct" ELSE "visit"
                  /\ UNCHANGED events
             [] OTHER ->
                  LET r == collect_events_from_jsonld(p)
                  IN  /\ pc' = IF r.st = "raise" THEN "crashed" ELSE "finish"
                      /\ events' = IF r.st = "raise" THEN <<>> ELSE KeepRecent(r.items, now)
                      /\ UNCHANGED todo
    /\ UNCHANGED <<variant, now, amp, visited, written, normVars, escVars, extVars>>

\* asm_to_ics: fetch(AMP_URL) raises and is passed over
AmpFetchFails ==
    /\ pc = "amp"
    /\ todo' = Sorted(listing.links)
    /\ pc' = IF listing.links = {} THEN "direct" ELSE "visit"
    /\ UNCHANGED <<variant, now, listing, amp, visited, events, written,
                   normVars, escVars, extVars>>

\* asm_to_ics: the AMP page arrives and its links join the listing's
AmpFetched ==
    /\ pc = "amp"
    /\ \E p \in AmpPages :
        /\ amp' = p
        /\ todo' = Sorted(listing.links \cup p.links)
        /\ pc' = IF listing.links \cup p.links = {} THEN "direct" ELSE "visit"
    /\ UNCHANGED <<variant, now, listing, visited, events, written,
                   normVars, escVars, extVars>>

\* asm_to_ics, "if not urls": events straight from the JSON-LD of the two
\* listing pages
DirectAsm ==
    /\ pc = "direct"
    /\ variant = "asm"
    /\ LET a == DirectEvents(listing.nodes, StartUrl("asm"))
           b == DirectEvents(amp.nodes, AMP_URL)
       IN  IF a.st = "raise" \/ b.st = "raise"
           THEN pc' = "crashed" /\ UNCHANGED events
           ELSE pc' = "finish" /\ events' = a.events \o b.events
    /\ UNCHANGED <<variant, now, listing, amp, todo, visited, written,
                   normVars, escVars, extVars>>

\* asm_venue_to_ics, "if not event_urls": the start page is read like a
\* detail page
DirectVenue ==
    /\ pc = "direct"
    /\ variant = "venue"
    /\ LET f == find_dates_and_title_from_html(listing, now)
       IN  IF f.st = "raise"
           THEN pc' = "crashed" /\ UNCHANGED events
           ELSE /\ pc' = "finish"
                /\ events' = EventsOf("venue", f.dates, PageTitle("venue", f.title, listing),
                                      StartUrl("venue"), now)
    /\ UNCHANGED <<variant, now, listing, amp, todo, visited, written,
                   normVars, escVars, extVars>>

\* fetch(u) raises for the next detail URL: logged, and on to the next
DetailFetchFails ==
    /\ pc = "visit"
    /\ todo # <<>>
    /\ visited' = Append(visited, Visit(Head(todo), "failed", EmptyPage))
    /\ todo' = Tail(todo)
    /\ pc' = IF Tail(todo) = <<>> THEN "finish" ELSE "visit"
    /\ UNCHANGED <<variant, now, listing, amp, events, written,
                   normVars, escVars, extVars>>

\* the next detail page arrives and is read
DetailFetched ==
    /\ pc = "visit"
    /\ todo # <<>>
    /\ \E p \in DetailPages :
        LET f == AsmExtract(variant, p, now)
        IN  /\ visited' = Append(visited, Visit(Head(todo), "read", p))
            /\ IF f.st = "raise"
               THEN pc' = "crashed" /\ UNCHANGED <<todo, events>>
               ELSE /\ todo' = Tail(todo)
                    /\ pc' = IF Tail(todo) = <<>> THEN "finish" ELSE "visit"
                    /\ events' = events \o EventsOf(variant, f.dates,
                                                    PageTitle(variant, f.title, p),
                                                    DetailUrl(Head(todo)), now)
    /\ UNCHANGED <<variant, now, listing, amp, written, normVars, escVars, extVars>>

\* the placeholder when there is no event, the sort, and the file
Finish ==
    /\ pc = "finish"
    /\ events' = IF events = <<>> THEN Placeholder(variant, now) ELSE events
    /\ written' = Serialize(variant, events', now)
    /\ pc' = "written"
    /\ UNCHANGED <<variant, now, listing, amp, todo, visited, normVars, escVars, extVars>>

Next ==
    \/ ListingFetchFails
    \/ ListingFetched
    \/ AmpFetchFails
    \/ AmpFetched
    \/ DirectAsm
    \/ DirectVenue
    \/ DetailFetchFails
    \/ DetailFetched
    \/ Finish

Spec == RunInit /\ [][Next]_vars

\* ---------------------------------------------------------------- claims

\* the calendar has been written
Written == pc = "written"

\* the local wall-clock reading, in New York, of an instant of the file
LocalOf(utc) == utc + SITE_TZ

\* C1: whenever the calendar is written, in every script, it holds at least
\* one event block.
C1_WrittenNeverEmpty == Written => Len(written) >= 1

\* C1's case: detail pages were visited, none gave a recent event, and the
\* file was written with the placeholder.
C1_Witness == Written /\ visited # <<>> /\ Len(written) = 1 /\ written[1].of.ph

\* C2: when a fetched listing without detail links gave no event, the file
\* then written holds exactly one event, which starts at 09:00 local time on
\* the day after the run and ends one hour later.
C2_PlaceholderTomorrowAtNine ==
    [][(pc = "finish" /\ events = <<>> /\ visited = <<>> /\ pc' = "written")
       => /\ Len(written') = 1
          /\ LocalOf(written'[1].dtstart) = (DateOf(now) + 1) * 1440 + 9 * 60
          /\ written'[1].dtend = written'[1].dtstart + 60]_vars

\* C3: every event of the written file other than the placeholder starts no
\* earlier than 24 hours before the run, whether it came from a detail page
\* or from the listing page's own structured data.
C3_NoStaleEvent ==
    Written => \A i \in 1..Len(written) :
        ~written[i].of.ph => written[i].dtstart >= utcstamp(now_ny(now)) - 1440

\* the structured-data strategy yields a date: some Event node has a start
\* the normalizer resolves
JsonLdYields(page) ==
    \E i \in 1..Len(page.nodes) :
        ContainsEvent(page.nodes[i].type) /\ parse_iso_like(page.nodes[i].start).r = "ts"

RECURSIVE FirstEventName(_)
\* the name of the first Event node that has a non-empty one
FirstEventName(nodes) ==
    IF nodes = <<>> THEN None
    ELSE IF ContainsEvent(Head(nodes).type) /\ Truthy(Head(nodes).name)
         THEN Head(nodes).name
    ELSE FirstEventName(Tail(nodes))

ExtractedAsm == pc = "ext_done" /\ variant \in AsmVariants /\ found.st = "ok"

DatesFromOneStrategy ==
    /\ JsonLdYields(doc) => \A i \in 1..Len(found.dates) : found.dates[i].src = "jsonld"
    /\ ~JsonLdYields(doc) => \A i \in 1..Len(found.dates) : found.dates[i].src # "jsonld"

Normalized == pc = "norm_done"

\* C5: a bare calendar date YYYY-MM-DD resolves, in every script, to 19:00
\* local time on that date.
C5_BareDateAtSevenPm ==
    (Normalized /\ nin.k = "date" /\ ValidFields(nin.y, nin.m, nin.d, 0, 0))
    => nout = Resolved(Stamp(Wall(nin.y, nin.m, nin.d, 19, 0), SITE_TZ, "NY"))

\* C6: whatever the extractors hand to the normalizer, it returns a timestamp
\* or no date; it never raises.
C6_NormalizerNeverRaises == Normalized => nout.r # "raise"

\* the hour the claim gives for a 12-hour time
ClaimedHour(h, ap) ==
    CASE h = 12 /\ ap = "am" -> 0
      [] h = 12 /\ ap = "pm" -> 12
      [] ap = "am" -> h
      [] OTHER -> h + 12

\* C7: a visible-text time with hour 1..12 and AM/PM, on a day that exists,
\* gives the hour 0 for 12 AM, 12 for 12 PM, h for another AM hour and h + 12
\* for another PM hour, an hour of the day in 0..23.
C7_TwelveHourClock ==
    (pc = "ext_done" /\ variant \in AsmVariants /\ Len(doc.text) = 1
        /\ doc.text[1].h \in 1..12 /\ MONTH_MAP(variant, doc.text[1].mon) # 0
        /\ doc.text[1].day <= DaysInMonth(MONTH_MAP(variant, doc.text[1].mon))
        /\ doc.nodes = <<>> /\ doc.itemprop = <<>> /\ doc.timetag = <<>>
        /\ doc.meta = <<>> /\ doc.generic = <<>>)
    => /\ found.st = "ok"
       /\ Len(found.dates) = 1
       /\ found.dates[1].src = "text"
       /\ TimeOfDay(found.dates[1].ts.wall) \div 60
            = ClaimedHour(doc.text[1].h, LowerAmPm(doc.text[1].ap))
       /\ TimeOfDay(found.dates[1].ts.wall) \div 60 \in 0..23

\* C7's case: "12:30 AM" in the visible text became 00:30.
C7_Witness ==
    /\ pc = "ext_done" /\ variant \in AsmVariants /\ found.st = "ok"
    /\ Len(doc.text) = 1 /\ doc.text[1].h = 12 /\ doc.text[1].ap = "AM"
    /\ Len(found.dates) = 1 /\ found.dates[1].src = "text"
    /\ TimeOfDay(found.dates[1].ts.wall) = 30

\* C8: the structured-data extraction of every script returns no two results
\* with the same title, start and url.
C8_NoDuplicateResults ==
    (pc = "ext_done" /\ found.st = "ok") =>
        IF variant \in AsmVariants
        THEN \A i, j \in 1..Len(found.dates) :
                (i < j /\ found.dates[i].src = "jsonld" /\ found.dates[j].src = "jsonld")
                => found.dates[i].ts # found.dates[j].ts
        ELSE \A i, j \in 1..Len(found.items) :
                i < j => <<found.items[i].title, found.items[i].start, found.items[i].url>>
                         # <<found.items[j].title, found.items[j].start, found.items[j].url>>

\* the escaped form of one character
EscapedChar(c) ==
    CASE c = "\\" -> <<"\\", "\\">>
      [] c = ";" -> <<"\\", ";">>
      [] c = "," -> <<"\\", ",">>
      [] c = "\n" -> <<"\\", "n">>
      [] OTHER -> <<c>>

RECURSIVE EscapedForm(_)
EscapedForm(s) == IF s = <<>> THEN <<>> ELSE EscapedChar(Head(s)) \o EscapedForm(Tail(s))

\* the summary a block was written from: the title with the script's prefix
SummaryOf(b) ==
    IF variant \in AsmVariants THEN b.of.title ELSE TITLE_PREFIX(variant) \o b.of.title

\* C9: in the written file every SUMMARY, and every URL and DESCRIPTION that is
\* there, is the escaped form of the value it was written from.
C9_FieldsEscaped ==
    Written => \A i \in 1..Len(written) :
        /\ written[i].summary = EscapedForm(SummaryOf(written[i]))
        /\ written[i].url # None => written[i].url = EscapedForm(written[i].of.url)
        /\ written[i].desc # None => written[i].desc = EscapedForm(written[i].of.desc)

\* C10: un-escaping escape_ics(s) left to right gives s back, for every
\* string over comma, semicolon, backslash, newline, n and ordinary text.
C10_EscapeRoundTrip == pc = "esc_done" => Unescape(esc) = txt

\* C10's case: a string with a backslash before an n, a newline and a comma
\* has been escaped.
C10_Witness ==
    /\ pc = "esc_done"
    /\ txt = <<"\\", "n", "\n">>
    /\ esc = <<"\\", "\\", "n", "\\", "n">>

\* minutes between a zone's wall clock and UTC: five hours behind for the
\* site's zone and for -05:00, none for UTC
BehindUtc(ts) == IF ts.tz = "UTC" THEN 0 ELSE 300

\* the start of "Sample Show": 2025-11-20T19:30:00-05:00
ShowStart == Stamp(Wall(2025, 11, 20, 19, 30), SITE_TZ, "FIXED")

\* C11: every block of the written file that came from an extracted date has
\* DTSTART at the UTC reading of the event's start and DTEND exactly two hours
\* after it, so strictly later; the end kept by an ASM event is its start plus
\* two hours; a start of 2025-11-20T19:30:00-05:00 is written as
\* 20251121T003000Z with the end 20251121T023000Z.
C11_TwoHoursInUtc ==
    Written => \A i \in 1..Len(written) :
        ~written[i].of.ph =>
            /\ written[i].dtstart = written[i].of.start.wall + BehindUtc(written[i].of.start)
            /\ written[i].dtend = written[i].dtstart + 2 * 60
            /\ written[i].dtend > written[i].dtstart
            /\ variant \in AsmVariants =>
                   written[i].of.end = Plus(written[i].of.start, 2 * 60)
            /\ written[i].of.start = ShowStart =>
                   /\ written[i].dtstart = Wall(2025, 11, 21, 0, 30)
                   /\ written[i].dtend = Wall(2025, 11, 21, 2, 30)

\* C11's case: the listing's one node "Sample Show" was written as one event
\* with that title and url, from 00:30 to 02:30 UTC on 2025-11-21.
C11_Witness ==
    /\ Written /\ variant = "asm" /\ visited = <<>>
    /\ Len(listing.nodes) = 1 /\ listing.nodes[1].start = RawShow
    /\ Len(written) = 1 /\ ~written[1].of.ph
    /\ written[1].summary = TitleShow /\ written[1].url = UrlShow
    /\ written[1].dtstart = Wall(2025, 11, 21, 0, 30)
    /\ written[1].dtend = Wall(2025, 11, 21, 2, 30)

\* the events one visited URL gives: none when its fetch failed
EventsFrom(v) ==
    IF v.got = "failed" THEN <<>>
    ELSE LET f == AsmExtract(variant, v.page, now)
         IN  IF f.st = "raise" THEN <<>>
             ELSE EventsOf(variant, f.dates, PageTitle(variant, f.title, v.page),
                           DetailUrl(v.url), now)

RECURSIVE EventsFromAll(_)
EventsFromAll(vs) ==
    IF vs = <<>> THEN <<>> ELSE EventsFrom(Head(vs)) \o EventsFromAll(Tail(vs))

SomeFetchFailed == \E i \in 1..Len(visited) : visited[i].got = "failed"

\* C12: in the ASM scripts, a run in which the fetch of some detail page
\* failed goes on: it does not end with an exception; the URLs fetched so far
\* and the URLs still to fetch are together the sorted URLs, each once; the
\* events collected are those of the pages that arrived, the failed ones
\* giving none; and once the loop is over every URL has been fetched.
C12_FetchFailureSkipsOnePage ==
    (variant \in AsmVariants /\ SomeFetchFailed) =>
        /\ pc # "crashed"
        /\ pc \in {"visit", "finish"} =>
               /\ [i \in 1..Len(visited) |-> visited[i].url] \o todo
                      = Sorted(listing.links \cup amp.links)
               /\ events = EventsFromAll(visited)
        /\ pc \in {"finish", "written"} => todo = <<>>

\* a timestamp that carries a timezone; the site's zone is five hours behind
Aware(ts) == ts.tz \in {"NY", "UTC", "FIXED"} /\ (ts.tz = "NY" => ts.off = SITE_TZ)

\* a timestamp in the site's zone with the given wall-clock reading, which is
\* not that reading taken as UTC
LocalAt(ts, w) == ts.tz = "NY" /\ ts.wall = w /\ Instant(ts) = w - SITE_TZ /\ Instant(ts) # w

\* a string date or date-time without an offset that denotes a real day
NoZone(v) ==
    /\ v.k \in {"date", "dt"} /\ v.z = "naive"
    /\ ValidFields(v.y, v.m, v.d, v.h, v.mi)

\* the first timestamp an extraction returned
FirstResult == IF variant \in AsmVariants THEN found.dates[1].ts ELSE found.items[1].start

\* C13: every timestamp an extractor returns carries a timezone; one made
\* from a date or date-time string without an offset, or from visible text,
\* is in America/New_York with the wall-clock date and time of the input, and
\* not that reading taken as UTC.
C13_NaiveBecomesNewYork ==
    (pc = "ext_done" /\ found.st = "ok") =>
        /\ variant \in AsmVariants =>
               \A i \in 1..Len(found.dates) :
                   /\ Aware(found.dates[i].ts)
                   /\ found.dates[i].src = "text" =>
                          /\ found.dates[i].ts.tz = "NY"
                          /\ Instant(found.dates[i].ts) = found.dates[i].ts.wall + 300
                   /\ (found.dates[i].src = "generic" /\ NoZone(doc.generic[1])) =>
                          LocalAt(found.dates[i].ts,
                                  Wall(doc.generic[1].y, doc.generic[1].m, doc.generic[1].d,
                                       doc.generic[1].h, doc.generic[1].mi))
        /\ variant \in TmVariants =>
               \A i \in 1..Len(found.items) : Aware(found.items[i].start)
        /\ (Len(doc.nodes) = 1 /\ ContainsEvent(doc.nodes[1].type)
                /\ Truthy(doc.nodes[1].name) /\ NoZone(doc.nodes[1].start)) =>
               LET v == doc.nodes[1].start
               IN  /\ v.k = "dt" => LocalAt(FirstResult, Wall(v.y, v.m, v.d, v.h, v.mi))
                   /\ v.k = "date" =>
                          /\ FirstResult.tz = "NY"
                          /\ DateOf(FirstResult.wall) = DateOf(Wall(v.y, v.m, v.d, 0, 0))
                          /\ Instant(FirstResult) = FirstResult.wall + 300

\* C13's case: a page whose one Event node starts at "2025-11-19T03:00:00",
\* without offset, gave 03:00 New York time, which is 08:00 UTC.
C13_Witness ==
    /\ pc = "ext_done" /\ variant = "asm" /\ found.st = "ok"
    /\ Len(doc.nodes) = 1 /\ doc.nodes[1].start = RawOld
    /\ Len(found.dates) = 1
    /\ found.dates[1].ts = Stamp(Wall(2025, 11, 19, 3, 0), SITE_TZ, "NY")
    /\ utcstamp(found.dates[1].ts) = Wall(2025, 11, 19, 8, 0)

\* where the attribute stage looks: itemprop startDate, <time datetime>, meta
AttrSources == {"itemprop", "time", "meta"}

\* the attribute stage yields a date on the page
AttrYields(page) ==
    \E r \in {page.itemprop, page.timetag, page.meta} :
        \E i \in 1..Len(r) : parse_iso_like(r[i]).r = "ts"

\* the generic quoted "startDate" scan yields a date on the page
GenericYields(page) ==
    \E i \in 1..Len(page.generic) : parse_iso_like(page.generic[i]).r = "ts"

\* some returned date comes from one of the sources
Returned(srcs) == \E i \in 1..Len(found.dates) : found.dates[i].src \in srcs

\* C14 as stated: in both ASM extractors, when the structured data yields no
\* date, an attribute date shuts out every generic-scan and visible-text
\* date, and a generic-scan date shuts out every visible-text date.
C14_FirstStageAlone ==
    (ExtractedAsm /\ ~JsonLdYields(doc)) =>
        /\ AttrYields(doc) => ~Returned({"generic", "text"})
        /\ GenericYields(doc) => ~Returned({"text"})

\* C14, amended: asm_to_ics is as stated; in asm_venue_to_ics the attribute
\* scans and the generic scan are one stage, whose dates are returned
\* together, and visible-text dates are returned only when neither yields.
C14_TextOnlyWhenNothingElse ==
    (ExtractedAsm /\ ~JsonLdYields(doc)) =>
        /\ variant = "asm" =>
               /\ AttrYields(doc) => (Returned(AttrSources) /\ ~Returned({"generic", "text"}))
               /\ (~AttrYields(doc) /\ GenericYields(doc)) =>
                      (Returned({"generic"}) /\ ~Returned(AttrSources \cup {"text"}))
        /\ variant = "venue" =>
               /\ AttrYields(doc) => Returned(AttrSources)
               /\ GenericYields(doc) => Returned({"generic"})
               /\ (AttrYields(doc) \/ GenericYields(doc)) => ~Returned({"text"})
        /\ (~AttrYields(doc) /\ ~GenericYields(doc)) => ~Returned(AttrSources \cup {"generic"})

\* C14's case: a venue page with an itemprop date, a generic-scan date and a
\* visible-text date gave the first two and not the third.
C14_Witness ==
    /\ ExtractedAsm /\ variant = "venue" /\ ~JsonLdYields(doc)
    /\ AttrYields(doc) /\ GenericYields(doc) /\ doc.text # <<>>
    /\ Returned({"itemprop"}) /\ Returned({"generic"}) /\ ~Returned({"text"})

\* a visible-text match whose month is known but whose day or hour does not
\* exist: "Feb 30", or an hour past 23 once PM has added its twelve
NoRealTime(var, m) ==
    /\ MONTH_MAP(var, m.mon) # 0
    /\ \/ m.day > DaysInMonth(MONTH_MAP(var, m.mon))
       \/ To24(m.h, LowerAmPm(m.ap)) > 23

\* C15: an ASM extractor handed a page whose visible text holds a date-shaped
\* value that is no real timestamp, and nothing else, returns without raising
\* and returns no date.
C15_InvalidDateIsNoDate ==
    (pc = "ext_done" /\ variant \in AsmVariants /\ doc.nodes = <<>>
        /\ doc.itemprop = <<>> /\ doc.timetag = <<>> /\ doc.meta = <<>>
        /\ doc.generic = <<>>
        /\ Len(doc.text) = 1 /\ NoRealTime(variant, doc.text[1]))
    => (found.st = "ok" /\ found.dates = <<>>)

RECURSIVE EventNodes(_)
\* the nodes the claimed test selects, among those with a start that resolves:
\* the type tag contains "Event"
EventNodes(nodes) ==
    IF nodes = <<>> THEN <<>>
    ELSE (IF ContainsEvent(Head(nodes).type) /\ parse_iso_like(Head(nodes).start).r = "ts"
          THEN <<Head(nodes)>> ELSE <<>>) \o EventNodes(Tail(nodes))

\* C16: when asm_to_ics collected no links and took its events straight from
\* the structured data of the listing and AMP pages, the events are those of
\* the nodes whose type tag contains "Event", one each and in order.
C16_SameEventTest ==
    (variant = "asm" /\ pc = "finish" /\ visited = <<>>) =>
        LET sel == EventNodes(listing.nodes) \o EventNodes(amp.nodes)
        IN  /\ Len(events) = Len(sel)
            /\ \A i \in 1..Len(sel) : events[i].start = parse_iso_like(sel[i].start).ts

\* the title the claim gives to the events of a page: the h1 text if there is
\* some, else the og:title content, else the title element up to the first
\* "|", else the generic title
ClaimedTitle(page) ==
    IF page.h1 # None /\ Strip(page.h1) # <<>> THEN Strip(page.h1)
    ELSE IF page.og # None /\ Strip(page.og) # <<>> THEN Strip(page.og)
    ELSE IF page.ttl # None /\ Strip(BeforeBar(page.ttl)) # <<>> THEN Strip(BeforeBar(page.ttl))
    ELSE DefaultTitle

\* C17: in both ASM scripts every event of a detail page whose structured
\* data names no event carries the title resolved from that page as h1, else
\* og:title, else <title> cut at "|", else "ASM Syracuse Event" (behind the
\* script's title prefix), whichever stage gave the page's dates.
C17_TitleOrder ==
    (variant \in AsmVariants /\ pc \in {"visit", "finish", "written"}) =>
        \A i \in 1..Len(events) : \A k \in 1..Len(visited) :
            (/\ ~events[i].ph
             /\ events[i].url = DetailUrl(visited[k].url)
             /\ FirstEventName(visited[k].page.nodes) = None)
            => events[i].title
                   = Strip(TITLE_PREFIX(variant) \o ClaimedTitle(visited[k].page))

====
